---- MODULE Spec2Model ----
(***************************************************************************)
(* A model of xrft (src/xrft/xrft.py): coordinate-aware discrete Fourier   *)
(* transforms of labelled arrays.                                          *)
(*                                                                         *)
(* Numbers.  Coordinates, spacings and tolerances are exact rationals      *)
(* <<num, den>>.  Array values are exact complex numbers of the cyclotomic *)
(* field Q(z), z = exp(2*pi*i/12), written <<a0,a1,a2,a3>> for             *)
(* a0 + a1*z + a2*z^2 + a3*z^3 (z^4 = z^2 - 1, i = z^3).  Every twiddle    *)
(* factor of a transform of length 2, 3, 4 or 6 is a power of z, so the    *)
(* FFT kernels are computed exactly for those axis lengths.                *)
(***************************************************************************)
EXTENDS Integers, Sequences, FiniteSets, TLC

(***************************************************************************)
(* Rational arithmetic (the float arithmetic of the source, made exact).   *)
(***************************************************************************)
Abs(x) == IF x < 0 THEN -x ELSE x

RECURSIVE GCD(_, _)
GCD(a, b) == IF b = 0 THEN a ELSE GCD(b, a % b)

RNorm(n, d) ==
    LET s == IF d < 0 THEN -1 ELSE 1
        g == GCD(Abs(n), Abs(d))
    IN  <<(s * n) \div g, (s * d) \div g>>

RInt(n) == <<n, 1>>
R0 == RInt(0)
R1 == RInt(1)
\* sums over the least common denominator and products with cross-cancelling,
\* so that no intermediate number is larger than the result needs
RAdd(a, b) ==
    LET g == GCD(a[2], b[2])
    IN  RNorm(a[1] * (b[2] \div g) + b[1] * (a[2] \div g), (a[2] \div g) * b[2])
RNeg(a) == <<-a[1], a[2]>>
RSub(a, b) == RAdd(a, RNeg(b))
RMul(a, b) ==
    LET g1 == GCD(Abs(a[1]), b[2])
        g2 == GCD(Abs(b[1]), a[2])
    IN  RNorm((a[1] \div g1) * (b[1] \div g2), (a[2] \div g2) * (b[2] \div g1))
RInv(a) == RNorm(a[2], a[1])
RDiv(a, b) == RMul(a, RInv(b))
RAbs(a) == <<Abs(a[1]), a[2]>>
RLe(a, b) == a[1] * b[2] <= b[1] * a[2]
RLt(a, b) == a[1] * b[2] < b[1] * a[2]

(***************************************************************************)
(* Complex values in Q(z), z a primitive 12th root of unity.               *)
(***************************************************************************)
CReal(r) == <<r, R0, R0, R0>>
C0 == CReal(R0)
CAdd(u, v) == [k \in 1..4 |-> RAdd(u[k], v[k])]
CScale(r, u) == [k \in 1..4 |-> RMul(r, u[k])]
\* u * z, using z^4 = z^2 - 1
CMulZeta(u) == <<RNeg(u[4]), u[1], RAdd(u[2], u[4]), u[3]>>

RECURSIVE CMulZetaPow(_, _)
CMulZetaPow(u, k) == IF k = 0 THEN u ELSE CMulZetaPow(CMulZeta(u), k - 1)

\* complex conjugation: z -> 1/z = z - z^3
CConj(u) == <<RAdd(u[1], u[3]), u[2], RNeg(u[3]), RNeg(RAdd(u[2], u[4]))>>
\* the real part, as a (real) member of the field
CRe(u) == CScale(<<1, 2>>, CAdd(u, CConj(u)))
CMul(u, v) ==
    CAdd(CAdd(CScale(u[1], v), CScale(u[2], CMulZetaPow(v, 1))),
         CAdd(CScale(u[3], CMulZetaPow(v, 2)), CScale(u[4], CMulZetaPow(v, 3))))

\* u * exp(2*pi*i*t) for a rational number of turns t.  The field holds the
\* factor only when the denominator of t divides 12; the operator is left
\* undefined for any other t (the calls of the model never need one).
TurnOk(t) == 12 % t[2] = 0
CTurn(u, t) ==
    IF TurnOk(t) THEN CMulZetaPow(u, ((t[1] * (12 \div t[2])) % 12))
    ELSE CHOOSE w \in {} : TRUE

RECURSIVE CSumSeq(_)
CSumSeq(s) == IF Len(s) = 0 THEN C0 ELSE CAdd(Head(s), CSumSeq(Tail(s)))

RECURSIVE RProd(_)
RProd(s) == IF Len(s) = 0 THEN R1 ELSE RMul(Head(s), RProd(Tail(s)))

(***************************************************************************)
(* numpy level: an n-dimensional array is [shape, v], v a function from    *)
(* index tuples (0-based entries) to values.                               *)
(***************************************************************************)
Range(s) == {s[i] : i \in DOMAIN s}

\* the index tuples (0-based) of an array of the given shape
RECURSIVE Idx(_)
Idx(shape) ==
    IF Len(shape) = 0 THEN {<<>>}
    ELSE {<<i>> \o t : i \in 0..(shape[1] - 1), t \in Idx(Tail(shape))}

Put(t, ax, j) == [t EXCEPT ![ax] = j]

\* f itself.  TLC tabulates a function when it is compared, so the shape, the
\* coordinates and the values of an array are computed once and not again by
\* every later stage that reads them.
Eager(f) == IF f = f THEN f ELSE f

\* np.roll along one axis: out[(i + s) mod n] = in[i]
Roll(a, ax, s) ==
    [shape |-> a.shape,
     v |-> Eager([t \in Idx(a.shape) |-> a.v[Put(t, ax, (t[ax] - s) % a.shape[ax])]])]

\* np.fft.fftshift / ifftshift over a list of axes
RECURSIVE FftShift(_, _)
FftShift(a, axes) ==
    IF Len(axes) = 0 THEN a
    ELSE FftShift(Roll(a, Head(axes), a.shape[Head(axes)] \div 2), Tail(axes))

RECURSIVE IfftShift(_, _)
IfftShift(a, axes) ==
    IF Len(axes) = 0 THEN a
    ELSE IfftShift(Roll(a, Head(axes), -(a.shape[Head(axes)] \div 2)), Tail(axes))

\* one-dimensional complex DFT along axis ax; sign = -1 forward, sign = 1
\* inverse (with the 1/n factor)
FftAxis(a, ax, sign) ==
    LET n == a.shape[ax]
        raw(t) == CSumSeq([j1 \in 1..n |->
                     CTurn(a.v[Put(t, ax, j1 - 1)],
                           RNorm(sign * (j1 - 1) * t[ax], n))])
    IN  [shape |-> a.shape,
         v |-> Eager([t \in Idx(a.shape) |->
                  CScale(IF sign = 1 THEN <<1, n>> ELSE R1, raw(t))])]

\* np.fft.rfft along axis ax: the n \div 2 + 1 non-negative frequency bins of
\* the forward transform of the real part of the input
RfftAxis(a, ax) ==
    LET n == a.shape[ax]
        sh == [a.shape EXCEPT ![ax] = n \div 2 + 1]
    IN  [shape |-> sh,
         v |-> Eager([t \in Idx(sh) |->
                  CSumSeq([j1 \in 1..n |->
                     CTurn(CRe(a.v[Put(t, ax, j1 - 1)]),
                           RNorm(-((j1 - 1) * t[ax]), n))])])]

\* np.fft.irfft along axis ax with the default output length n = 2*(m-1):
\* the input is taken as the non-negative half of a Hermitian spectrum
IrfftAxis(a, ax) ==
    LET m == a.shape[ax]
        n == 2 * (m - 1)
        sh == [a.shape EXCEPT ![ax] = n]
        full(t, k) ==
            IF k = 0 \/ k = m - 1 THEN CRe(a.v[Put(t, ax, k)])
            ELSE IF k < m THEN a.v[Put(t, ax, k)]
            ELSE CConj(a.v[Put(t, ax, n - k)])
    IN  [shape |-> sh,
         v |-> Eager([t \in Idx(sh) |->
                  CScale(<<1, n>>,
                     CSumSeq([k1 \in 1..n |->
                        CTurn(full(t, k1 - 1), RNorm((k1 - 1) * t[ax], n))]))])]

RECURSIVE FftN(_, _, _)
FftN(a, axes, sign) ==
    IF Len(axes) = 0 THEN a
    ELSE FftN(FftAxis(a, Head(axes), sign), Tail(axes), sign)

Front(s) == SubSeq(s, 1, Len(s) - 1)
Last(s) == s[Len(s)]

\* np.fft.rfftn: real transform over the last listed axis, complex over the rest
RfftN(a, axes) == FftN(RfftAxis(a, Last(axes)), Front(axes), -1)
\* np.fft.irfftn: complex inverse over all but the last listed axis, then irfft
IrfftN(a, axes) == IrfftAxis(FftN(a, Front(axes), 1), Last(axes))

(***************************************************************************)
(* xarray level.  An axis name is a sequence of tokens, so that prefixes   *)
(* and suffixes can be added and removed: "freq_x" is <<"freq_", "x">>.    *)
(* A DataArray is [dims, coords, spacing, nd, chunks]: the axis names in   *)
(* order, the coordinate vector of each axis, the "spacing" attribute of   *)
(* the coordinates that carry one, the values, and the dask chunk lengths  *)
(* of each axis (<<>> for an array that is not chunked).  <<>> also stands *)
(* for None where an argument is an optional name or list.                 *)
(***************************************************************************)
None == <<>>
NoArr == [dims |-> <<>>, coords |-> <<>>, spacing |-> <<>>,
          nd |-> [shape |-> <<>>, v |-> <<>>], chunks |-> <<>>]

\* da.get_axis_num(d), 1-based
AxisNum(dims, d) == CHOOSE i \in 1..Len(dims) : dims[i] = d
AxisNums(dims, ds) == [i \in 1..Len(ds) |-> AxisNum(dims, ds[i])]

\* da.transpose(*newdims)
Transpose(da, newdims) ==
    LET sh == [i \in 1..Len(newdims) |-> da.nd.shape[AxisNum(da.dims, newdims[i])]]
        back(t) == [i \in 1..Len(da.dims) |-> t[AxisNum(newdims, da.dims[i])]]
    IN  Eager([da EXCEPT !.dims = newdims,
                         !.nd = [shape |-> sh, v |-> [t \in Idx(sh) |-> da.nd.v[back(t)]]]])

\* da * w, w a one-dimensional array of factors along axis d (broadcast)
MulAlong(da, d, w) ==
    LET ax == AxisNum(da.dims, d)
    IN  [da EXCEPT !.nd.v = Eager([t \in Idx(da.nd.shape) |->
                                     CMul(w[t[ax] + 1], da.nd.v[t])])]

\* da * r for a real scalar r
ScaleArr(da, r) ==
    [da EXCEPT !.nd.v = Eager([t \in Idx(da.nd.shape) |-> CScale(r, da.nd.v[t])])]

\* the list dim with the real axis moved (or added) at the end
RealLast(dim, real) == SelectSeq(dim, LAMBDA d : d # real) \o <<real>>

\* da * exp(2*pi*i*turns) along axis d: one phase factor per coordinate value
PhaseAlong(da, d, turns) ==
    LET ax == AxisNum(da.dims, d)
    IN  [da EXCEPT !.nd.v = Eager([t \in Idx(da.nd.shape) |->
                                     CTurn(da.nd.v[t], turns[t[ax] + 1])])]

(***************************************************************************)
(* _stack_chunks                                                           *)
(***************************************************************************)
Suffix == <<"_segment">>

RECURSIVE SeqSum(_)
SeqSum(s) == IF Len(s) = 0 THEN 0 ELSE Head(s) + SeqSum(Tail(s))

\* np.diff(chunks).sum()
DiffSum(c) == SeqSum([i \in 1..(Len(c) - 1) |-> c[i + 1] - c[i]])

\* the error the loop body raises for axis d, or "ok"
StackErr(da, dim, d) ==
    LET n == Len(da.coords[d])
        chunklen == da.chunks[d][1]
    IN  IF d \notin Range(dim) THEN "ok"
        ELSE IF DiffSum(da.chunks[d]) # 0 THEN "uneven_chunks"
        ELSE IF (n \div chunklen) * chunklen # n THEN "reshape_error"
        ELSE "ok"

RECURSIVE FirstErr(_, _, _)
FirstErr(da, dim, ds) ==
    IF Len(ds) = 0 THEN "ok"
    ELSE IF StackErr(da, dim, Head(ds)) # "ok" THEN StackErr(da, dim, Head(ds))
    ELSE FirstErr(da, dim, Tail(ds))

RECURSIVE StackDims(_, _)
StackDims(dim, ds) ==
    IF Len(ds) = 0 THEN <<>>
    ELSE (IF Head(ds) \in Range(dim) THEN <<Head(ds) \o Suffix, Head(ds)>>
          ELSE <<Head(ds)>>) \o StackDims(dim, Tail(ds))

_stack_chunks(da, dim) ==
    LET err == FirstErr(da, dim, da.dims)
        newdims == StackDims(dim, da.dims)
        clen(d) == da.chunks[d][1]
        nseg(d) == Len(da.coords[d]) \div clen(d)
        isSeg(nm) == \E d \in Range(dim) : d \in Range(da.dims) /\ nm = d \o Suffix
        base(nm) == CHOOSE d \in Range(dim) : nm = d \o Suffix
        newcoords == [nm \in Range(newdims) |->
            IF isSeg(nm) THEN [i \in 1..nseg(base(nm)) |-> RInt(i - 1)]
            ELSE IF nm \in Range(dim) THEN SubSeq(da.coords[nm], 1, clen(nm))
            ELSE da.coords[nm]]
        newshape == [i \in 1..Len(newdims) |-> Len(newcoords[newdims[i]])]
        \* data.reshape(newshape), row-major
        old(t) == [i \in 1..Len(da.dims) |->
            LET d == da.dims[i]
                p == AxisNum(newdims, d)
            IN  IF d \in Range(dim) THEN t[p - 1] * clen(d) + t[p] ELSE t[p]]
    IN  IF err # "ok" THEN [status |-> err, da |-> NoArr]
        ELSE [status |-> "ok",
              da |-> Eager([dims |-> newdims, coords |-> newcoords, spacing |-> <<>>,
                            nd |-> [shape |-> newshape,
                                    v |-> [t \in Idx(newshape) |-> da.nd.v[old(t)]]],
                            chunks |-> <<>>])]

(***************************************************************************)
(* _freq, _ifreq, _new_dims_and_coords, _diff_coord, _lag_coord            *)
(***************************************************************************)
\* np.fft.fftfreq(n, d)
fftfreq(n, d) ==
    [i \in 1..n |->
        RDiv(RInt(IF i - 1 <= (n - 1) \div 2 THEN i - 1 ELSE i - 1 - n),
             RMul(RInt(n), d))]
\* np.fft.rfftfreq(n, d)
rfftfreq(n, d) == [i \in 1..(n \div 2 + 1) |-> RDiv(RInt(i - 1), RMul(RInt(n), d))]
\* a variant of ShiftSeq that leaves the vector in the kernel's order
ShiftSeq_none(k) == k

\* np.fft.fftshift of a vector
ShiftSeq(k) == [i \in 1..Len(k) |-> k[((i - 1 - Len(k) \div 2) % Len(k)) + 1]]

_freq(N, delta_x, real, shift) ==
    [i \in 1..Len(N) |->
        LET k == IF real # None /\ i = Len(N) THEN rfftfreq(N[i], delta_x[i])
                 ELSE fftfreq(N[i], delta_x[i])
        IN  IF shift THEN ShiftSeq(k) ELSE k]

\* a variant of _ifreq whose real axis has 2*N - 1 points
_ifreq_odd(N, delta_x, real, shift) ==
    [i \in 1..Len(N) |->
        LET k == IF real # None /\ i = Len(N) THEN fftfreq(2 * N[i] - 1, delta_x[i])
                 ELSE fftfreq(N[i], delta_x[i])
        IN  IF shift THEN ShiftSeq(k) ELSE k]

_ifreq(N, delta_x, real, shift) ==
    [i \in 1..Len(N) |->
        LET k == IF real # None /\ i = Len(N) THEN fftfreq(2 * (N[i] - 1), delta_x[i])
                 ELSE fftfreq(N[i], delta_x[i])
        IN  IF shift THEN ShiftSeq(k) ELSE k]

\* the name of the transformed axis: the prefix is removed from a name that
\* starts with it and put before any other name
NewName(d, prefix) ==
    IF Len(d) >= Len(prefix) /\ SubSeq(d, 1, Len(prefix)) = prefix
    THEN SubSeq(d, Len(prefix) + 1, Len(d))
    ELSE prefix \o d

\* swap_dims.get(d, d)
Swap(dim, prefix, d) == IF d \in Range(dim) THEN NewName(d, prefix) ELSE d

\* the array built from the kernel output f: transformed axes renamed and
\* given the coordinates k with their spacing attribute k[1] - k[0], the
\* other axes and their coordinates kept
_new_dims_and_coords(da, dim, k, prefix, f) ==
    LET newdims == [i \in 1..Len(da.dims) |-> Swap(dim, prefix, da.dims[i])]
        src(nm) == CHOOSE d \in Range(da.dims) : Swap(dim, prefix, d) = nm
        isNew(nm) == src(nm) \in Range(dim)
        kOf(nm) == k[AxisNum(dim, src(nm))]
    IN  Eager([dims |-> newdims,
               coords |-> [nm \in Range(newdims) |->
                              IF isNew(nm) THEN kOf(nm) ELSE da.coords[nm]],
               spacing |-> [nm \in {x \in Range(newdims) :
                                       isNew(x) \/ x \in DOMAIN da.spacing} |->
                              IF isNew(nm) THEN RSub(kOf(nm)[2], kOf(nm)[1])
                              ELSE da.spacing[nm]],
               nd |-> f,
               chunks |-> <<>>])

\* np.diff(coord)
_diff_coord(coord) == [i \in 1..(Len(coord) - 1) |-> RSub(coord[i + 1], coord[i])]
\* coord[len(coord) // 2]
_lag_coord(coord) == coord[Len(coord) \div 2 + 1]

\* numpy's default absolute tolerance of allclose is 1/AtolInv
AtolInv == 100000000

\* |a - b| <= atol + rtol * |b|, decided over the common denominator L of
\* |a - b| and |b| as  z * AtolInv <= q * L,  z = q*X - p*Y,  rtol = p/q
Close(a, b, rtol) ==
    LET x == RAbs(RSub(a, b))
        y == RAbs(b)
        g == GCD(x[2], y[2])
        L == (x[2] \div g) * y[2]
        z == rtol[2] * (x[1] * (L \div x[2])) - rtol[1] * (y[1] * (L \div y[2]))
        h == GCD(AtolInv, rtol[2])
    IN  z <= 0 \/ z <= ((rtol[2] \div h) * L) \div (AtolInv \div h)

\* np.allclose(diff, diff[0], rtol=spacing_tol)
allclose(diff, b, rtol) == \A i \in 1..Len(diff) : Close(diff[i], b, rtol)

(***************************************************************************)
(* dft.  The arguments are a record a; the result is [status, da, kernel]: *)
(* "ok" and the output array, or the error raised; kernel counts the calls *)
(* of an FFT kernel (fft_fn) issued before the call returned or raised.    *)
(***************************************************************************)
Raise(e, n) == [status |-> e, da |-> NoArr, kernel |-> n]

\* the spacing check of one axis in dft
DftAxisErr(coord, spacing_tol) ==
    LET diff == _diff_coord(coord)
    IN  IF Len(diff) = 0 THEN "index_error"      \* diff[0] of an axis of length 1
        ELSE IF ~allclose(diff, diff[1], spacing_tol) THEN "not_evenly_spaced"
        ELSE IF RAbs(diff[1]) = R0 THEN "zero_spacing"
        ELSE "ok"

RECURSIVE DftCoordsErr(_, _, _)
DftCoordsErr(da, ds, spacing_tol) ==
    IF Len(ds) = 0 THEN "ok"
    ELSE LET e == DftAxisErr(da.coords[Head(ds)], spacing_tol)
         IN  IF e # "ok" THEN e ELSE DftCoordsErr(da, Tail(ds), spacing_tol)

\* daft * exp(sign * 2i*pi * coordinate * lag) for each listed axis in turn
RECURSIVE PhaseAll(_, _, _, _)
PhaseAll(da, names, lags, sign) ==
    IF Len(names) = 0 THEN da
    ELSE PhaseAll(
            PhaseAlong(da, Head(names),
                [j \in 1..Len(da.coords[Head(names)]) |->
                    RMul(RInt(sign), RMul(da.coords[Head(names)][j], Head(lags)))]),
            Tail(names), Tail(lags), sign)

\* dim as given by the caller: every axis when None
CallerDims(x, a) == IF a.dim = None THEN x.dims ELSE a.dim

\* dim as dft and idft use it: the real axis is moved (or added) at the end
DimList(x, a) ==
    IF a.real # None THEN RealLast(CallerDims(x, a), a.real) ELSE CallerDims(x, a)

\* if chunks_to_segments: da = _stack_chunks(da, dim)
Stacked(da, a, dim) ==
    IF a.chunks_to_segments THEN _stack_chunks(da, dim) ELSE [status |-> "ok", da |-> da]

\* if real is not None: the real axis is moved at the end
RealTransposed(da, real) ==
    IF real # None THEN Transpose(da, RealLast(da.dims, real)) ELSE da

\* the optional steps around the kernel call
IfftShiftIf(on, f, axes) == IF on THEN IfftShift(f, axes) ELSE f
FftShiftIf(on, f, axes) == IF on THEN FftShift(f, axes) ELSE f
PhaseIf(on, da, names, lags, sign) == IF on THEN PhaseAll(da, names, lags, sign) ELSE da
ScaleIf(on, da, r) == IF on THEN ScaleArr(da, r) ELSE da

\* fft.fftn, or fft.rfftn when real is set
fft_fn(f, axes, real) == IF real = None THEN FftN(f, axes, -1) ELSE RfftN(f, axes)

\* a variant of shift that keeps the caller's flag on the real path
shift_requested(a) == a.shift

\* the shift dft applies: the real transform sets shift = False
shift(a) == a.real = None /\ a.shift

\* a variant of RestoredDims that leaves the last transformed axis at the end
RestoredDims_moved(dim, prefix, rawdims) ==
    [i \in 1..(Len(rawdims) - 1) |->
        Swap(dim, prefix, SelectSeq(rawdims, LAMBDA d : d # Last(dim))[i])]
    \o <<NewName(Last(dim), prefix)>>

\* [swap_dims.get(d, d) for d in rawdims]: the axes in the order of the input
RestoredDims(dim, prefix, rawdims) ==
    [i \in 1..Len(rawdims) |-> Swap(dim, prefix, rawdims[i])]

\* dft from the kernel call to the end, on the validated array da
DftTransform(da, a, dim, rawdims) ==
    LET axis_num == AxisNums(da.dims, dim)
        N == [i \in 1..Len(dim) |-> da.nd.shape[axis_num[i]]]
        delta_x == [i \in 1..Len(dim) |-> RAbs(_diff_coord(da.coords[dim[i]])[1])]
        lag_x == [i \in 1..Len(dim) |-> _lag_coord(da.coords[dim[i]])]
        updated_dims == [i \in 1..Len(dim) |-> NewName(dim[i], a.prefix)]
        pre == IfftShiftIf(a.true_phase, da.nd, axis_num)
        f0 == fft_fn(pre, axis_num, a.real)
        f == FftShiftIf(shift(a), f0, axis_num)
        daft0 == _new_dims_and_coords(da, dim, _freq(N, delta_x, a.real, shift(a)),
                                      a.prefix, f)
        daft1 == PhaseIf(a.true_phase, daft0, updated_dims, lag_x, -1)
        daft2 == ScaleIf(a.true_amplitude, daft1, RProd(delta_x))
    IN  Transpose(daft2, RestoredDims(dim, a.prefix, rawdims))

\* the sum of the values v over the cells S
RECURSIVE CSumOver(_, _)
CSumOver(v, S) ==
    IF S = {} THEN C0
    ELSE LET t == CHOOSE u \in S : TRUE
         IN  CAdd(v[t], CSumOver(v, S \ {t}))

\* detrend(da, dim, detrend_type='constant') of the detrend module: the mean
\* across the transformed axes is subtracted
_detrend(da, dim, detrend_type) ==
    LET axes == {AxisNum(da.dims, d) : d \in Range(dim)}
        group(t) == {u \in Idx(da.nd.shape) :
                        \A i \in 1..Len(t) : i \in axes \/ u[i] = t[i]}
        mean(t) == CScale(<<1, Cardinality(group(t))>>, CSumOver(da.nd.v, group(t)))
    IN  [da EXCEPT !.nd.v = Eager([t \in Idx(da.nd.shape) |->
                                     CAdd(da.nd.v[t], CScale(RInt(-1), mean(t)))])]

\* if detrend: da = _detrend(da, dim, detrend_type=detrend)
DetrendIf(detrend, da, dim) == IF detrend # None THEN _detrend(da, dim, detrend) ELSE da

\* a variant of DftValidated that checks the spacing after the kernel call
DftValidated_late(da, a, dim, rawdims) ==
    IF DftCoordsErr(da, dim, a.spacing_tol) # "ok"
    THEN Raise(DftCoordsErr(da, dim, a.spacing_tol), 1)
    ELSE [status |-> "ok", kernel |-> 1,
          da |-> DftTransform(DetrendIf(a.detrend, da, dim), a, dim, rawdims)]

\* dft from the spacing loop on: an error of the loop comes before the kernel
DftValidated(da, a, dim, rawdims) ==
    IF DftCoordsErr(da, dim, a.spacing_tol) # "ok"
    THEN Raise(DftCoordsErr(da, dim, a.spacing_tol), 0)
    ELSE [status |-> "ok", kernel |-> 1,
          da |-> DftTransform(DetrendIf(a.detrend, da, dim), a, dim, rawdims)]

DftStacked(st, a, dim) ==
    IF st.status # "ok" THEN Raise(st.status, 0)
    ELSE DftValidated(RealTransposed(st.da, a.real), a, dim, st.da.dims)

\* dft: [status, da, kernel], kernel the number of FFT kernel calls made
dft(da0, a) ==
    IF a.real # None /\ a.real \notin Range(da0.dims) THEN Raise("real_not_in_dims", 0)
    ELSE DftStacked(Stacked(da0, a, DimList(da0, a)), a, DimList(da0, a))

(***************************************************************************)
(* idft                                                                    *)
(***************************************************************************)
\* the order of daft.sortby(d): positions of coord in ascending (stable) order
SortPerm(coord) ==
    [i \in 1..Len(coord) |->
        CHOOSE j \in 1..Len(coord) :
            Cardinality({m \in 1..Len(coord) :
                RLt(coord[m], coord[j]) \/ (coord[m] = coord[j] /\ m < j)}) = i - 1]

sortby(da, d) ==
    LET ax == AxisNum(da.dims, d)
        perm == SortPerm(da.coords[d])
        coord == [i \in 1..Len(perm) |-> da.coords[d][perm[i]]]
        v == Eager([t \in Idx(da.nd.shape) |->
                      da.nd.v[Put(t, ax, perm[t[ax] + 1] - 1)]])
    IN  Eager([dims |-> da.dims,
               coords |-> [e \in DOMAIN da.coords |->
                              IF e = d THEN coord ELSE da.coords[e]],
               spacing |-> da.spacing,
               nd |-> [shape |-> da.nd.shape, v |-> v],
               chunks |-> da.chunks])

\* a variant of CentreValue that takes the midpoint for the real axis too
CentreValue_midpoint(coord, sorted, ok1, isReal) ==
    IF ~ok1 THEN _lag_coord(sorted) ELSE _lag_coord(coord)

\* l, the value idft tests against spacing_tol: the midpoint of the sorted
\* coordinate when the coordinate had to be sorted, else the midpoint, or the
\* first value for the real axis
CentreValue(coord, sorted, ok1, isReal) ==
    IF ~ok1 THEN _lag_coord(sorted)
    ELSE IF ~isReal THEN _lag_coord(coord)
    ELSE coord[1]

\* the check of one axis in idft: [status, da, delta], da re-sorted along d
\* when only the sorted coordinate is evenly spaced
IdftAxis(daft, d, real, spacing_tol) ==
    LET coord == daft.coords[d]
        diff == _diff_coord(coord)
        delta == RAbs(diff[1])
        ok1 == allclose(diff, diff[1], spacing_tol)
        reordered == sortby(daft, d)
        diff2 == _diff_coord(reordered.coords[d])
        ok2 == allclose(diff2, diff2[1], spacing_tol)
        l == CentreValue(coord, reordered.coords[d], ok1, d = real)
    IN  IF Len(diff) = 0 THEN [status |-> "index_error", da |-> daft, delta |-> R0]
        ELSE IF ~ok1 /\ ~ok2
             THEN [status |-> "not_evenly_spaced", da |-> daft, delta |-> delta]
        ELSE IF RLt(spacing_tol, RAbs(l))
             THEN [status |-> "not_centered", da |-> daft, delta |-> delta]
        ELSE IF delta = R0 THEN [status |-> "zero_spacing", da |-> daft, delta |-> delta]
        ELSE [status |-> "ok", da |-> IF ok1 THEN daft ELSE reordered, delta |-> delta]

\* the loop over dim: [status, da, delta_x]
RECURSIVE IdftCoords(_, _, _, _, _)
IdftCoords(daft, ds, real, spacing_tol, acc) ==
    IF Len(ds) = 0 THEN [status |-> "ok", da |-> daft, delta_x |-> acc]
    ELSE LET r == IdftAxis(daft, Head(ds), real, spacing_tol)
         IN  IF r.status # "ok" THEN [status |-> r.status, da |-> daft, delta_x |-> acc]
             ELSE IdftCoords(r.da, Tail(ds), real, spacing_tol, Append(acc, r.delta))

\* da.assign_coords({tfd: da[tfd] + l}) for each listed axis
RECURSIVE OffsetCoords(_, _, _)
OffsetCoords(da, names, lags) ==
    IF Len(names) = 0 THEN da
    ELSE OffsetCoords(
            Eager([da EXCEPT !.coords[Head(names)] =
                     [j \in 1..Len(da.coords[Head(names)]) |->
                         RAdd(da.coords[Head(names)][j], Head(lags))]]),
            Tail(names), Tail(lags))

\* if lag is not None: the lags are added to the output coordinates
OffsetIf(on, da, names, lags) == IF on THEN OffsetCoords(da, names, lags) ELSE da

\* da / np.prod([float(da[up_dim].spacing) for up_dim in swap_dims.values()])
ScaleBySpacing(on, da, names) ==
    IF on THEN ScaleArr(da, RInv(RProd([i \in 1..Len(names) |-> da.spacing[names[i]]])))
    ELSE da

\* a variant of ifft_fn whose complex transform is the forward one
ifft_fn_forward(f, axes, real) ==
    IF real = None THEN FftN(f, axes, -1) ELSE IrfftN(f, axes)

\* fftm.ifftn, or fftm.irfftn when real is set
ifft_fn(f, axes, real) == IF real = None THEN FftN(f, axes, 1) ELSE IrfftN(f, axes)

\* idft from the kernel call to the end, on the validated (and re-sorted) daft
IdftTransform(daft, delta_x, a, dim, rawdims) ==
    LET axis_num == AxisNums(daft.dims, dim)
        N == [i \in 1..Len(dim) |-> daft.nd.shape[axis_num[i]]]
        axis_shift == AxisNums(daft.dims, SelectSeq(dim, LAMBDA d : d # a.real))
        updated_dims == [i \in 1..Len(dim) |-> NewName(dim[i], a.prefix)]
        f0 == IfftShift(daft.nd, axis_shift)
        f1 == ifft_fn(f0, axis_num, a.real)
        f2 == IfftShiftIf(~a.true_phase, f1, axis_num)
        f == FftShiftIf(a.shift, f2, axis_num)
        da0 == _new_dims_and_coords(daft, dim, _ifreq(N, delta_x, a.real, a.shift),
                                    a.prefix, f)
        da1 == OffsetIf(a.lag # None, da0, updated_dims, a.lag)
    IN  Transpose(ScaleBySpacing(a.true_amplitude, da1, updated_dims),
                  RestoredDims(dim, a.prefix, rawdims))

\* idft from the end of the validation loop on: with detrend set, the call
\* of _apply_detrend, a name the module does not define, raises NameError
IdftValidated(chk, a, dim, rawdims) ==
    IF chk.status # "ok" THEN Raise(chk.status, 0)
    ELSE IF a.detrend # None THEN Raise("name_error", 0)
    ELSE [status |-> "ok", da |-> IdftTransform(chk.da, chk.delta_x, a, dim, rawdims),
          kernel |-> 1]

IdftStacked(st, a, dim) ==
    IF st.status # "ok" THEN Raise(st.status, 0)
    ELSE IdftValidated(IdftCoords(RealTransposed(st.da, a.real), dim, a.real,
                                  a.spacing_tol, <<>>),
                       a, dim, st.da.dims)

\* idft: [status, da, kernel]
idft(daft0, a) ==
    IF a.real # None /\ a.real \notin Range(daft0.dims) THEN Raise("real_not_in_dims", 0)
    ELSE IF a.lag # None /\ Len(DimList(daft0, a)) # Len(a.lag)
         THEN Raise("dim_lag_length", 0)
    ELSE IdftStacked(
            Stacked(PhaseIf(a.lag # None, daft0, DimList(daft0, a), a.lag, 1),
                    a, DimList(daft0, a)),
            a, DimList(daft0, a))

(***************************************************************************)
(* power_spectrum and cross_spectrum                                       *)
(***************************************************************************)
\* "segment" in d
HasSegment(d) == \E i \in 1..Len(d) : d[i] \in {"_segment", "segment"}

\* a variant of Scaling that lets the scaling argument stand beside the flag
Scaling_kept(a) == a.scaling

\* the scaling in force: a legacy density flag, when passed, replaces it
Scaling(a) ==
    IF a.density = "unset" THEN a.scaling
    ELSE IF a.density = "true" THEN "density" ELSE "false_density"

\* the transformed axes as the spectrum functions find them
UpdatedDims(daft, da) ==
    SelectSeq(daft.dims, LAMBDA d : d \notin Range(da.dims) /\ ~HasSegment(d))

\* the product of the spacing attributes of the listed axes
SpacingProd(x, ds) == RProd([i \in 1..Len(ds) |-> x.spacing[ds[i]]])

\* the scaling branch shared by both functions, applied to the product ps
\* computed after n kernel calls
Scale(ps, da, a, n) ==
    IF Scaling(a) = "density"
    THEN [status |-> "ok", kernel |-> n,
          da |-> ScaleArr(ScaleIf(a.real # None, ps, RInt(2)),
                          SpacingProd(ps, UpdatedDims(ps, da)))]
    ELSE IF Scaling(a) = "spectrum"
    THEN [status |-> "ok", kernel |-> n,
          da |-> ScaleArr(ScaleIf(a.real # None, ps, RInt(2)),
                          RMul(SpacingProd(ps, UpdatedDims(ps, da)),
                               SpacingProd(ps, UpdatedDims(ps, da))))]
    ELSE IF Scaling(a) = "false_density"
    THEN [status |-> "ok", kernel |-> n, da |-> ScaleIf(a.real # None, ps, RInt(2))]
    ELSE Raise("unknown_scaling", n)

\* np.real(daft * np.conj(daft))
SquaredModulus(daft) ==
    [daft EXCEPT !.nd.v = Eager([t \in Idx(daft.nd.shape) |->
                                   CMul(daft.nd.v[t], CConj(daft.nd.v[t]))])]

\* power_spectrum after its dft call r
PowerScaled(r, da, a) ==
    IF r.status # "ok" THEN r ELSE Scale(SquaredModulus(r.da), da, a, r.kernel)

power_spectrum(da, a) ==
    PowerScaled(dft(da, [a EXCEPT !.true_amplitude = TRUE, !.true_phase = FALSE]), da, a)

\* x * conj(y) of two arrays with the same axis names: xarray keeps, along
\* each axis, the coordinate values the two arrays share (inner join)
MulConj(x, y) ==
    LET keep(d) == SelectSeq(x.coords[d], LAMBDA c : c \in Range(y.coords[d]))
        pos(coord, c) == CHOOSE j \in 1..Len(coord) : coord[j] = c
        sh == [i \in 1..Len(x.dims) |-> Len(keep(x.dims[i]))]
        ix(t) == [i \in 1..Len(x.dims) |->
                    pos(x.coords[x.dims[i]], keep(x.dims[i])[t[i] + 1]) - 1]
        iy(t) == [i \in 1..Len(x.dims) |->
                    pos(y.coords[x.dims[i]], keep(x.dims[i])[t[i] + 1]) - 1]
    IN  Eager([x EXCEPT !.coords = [d \in Range(x.dims) |-> keep(d)],
                        !.nd = [shape |-> sh,
                                v |-> [t \in Idx(sh) |->
                                         CMul(x.nd.v[ix(t)], CConj(y.nd.v[iy(t)]))]]])

\* cross_spectrum after its two dft calls r1 and r2, made in this order
CrossScaled(r1, r2, da1, a) ==
    IF r1.status # "ok" THEN r1
    ELSE IF r2.status # "ok" THEN Raise(r2.status, r1.kernel)
    ELSE IF r1.da.dims # r2.da.dims
         THEN Raise("different_dimensions", r1.kernel + r2.kernel)
    ELSE Scale(MulConj(r1.da, r2.da), da1, a, r1.kernel + r2.kernel)

cross_spectrum(da1, da2, a) ==
    CrossScaled(dft(da1, [a EXCEPT !.true_amplitude = TRUE]),
                dft(da2, [a EXCEPT !.true_amplitude = TRUE]), da1, a)

(***************************************************************************)
(* isotropize.  A radial frequency sqrt(k^2 + l^2) is held by its square;   *)
(* a mean of radial frequencies is held by the squares of its terms.       *)
(***************************************************************************)
FreqR == <<"freq_r">>

\* a variant of nbins that takes the longer axis
nbins_max(N, nfactor) == (IF N[1] > N[2] THEN N[1] ELSE N[2]) \div nfactor

\* nbins = int(min(N) / nfactor)
nbins(N, nfactor) == (IF N[1] < N[2] THEN N[1] ELSE N[2]) \div nfactor

\* the cells of a two-dimensional array in the order of np.ravel
Ravel(shape) == [c \in 1..(shape[1] * shape[2]) |->
                    <<(c - 1) \div shape[2], (c - 1) % shape[2]>>]

\* k ** 2 + l ** 2 at the cell t of ps
Radius2(ps, fftdim, t) ==
    LET k == ps.coords[fftdim[2]][t[AxisNum(ps.dims, fftdim[2])] + 1]
        l == ps.coords[fftdim[1]][t[AxisNum(ps.dims, fftdim[1])] + 1]
    IN  RAdd(RMul(k, k), RMul(l, l))

\* the largest squared radius
MaxRadius2(ps, fftdim) ==
    CHOOSE m \in {Radius2(ps, fftdim, t) : t \in Idx(ps.nd.shape)} :
        \A t \in Idx(ps.nd.shape) : RLe(Radius2(ps, fftdim, t), m)

\* binned.codes + 1 of pd.cut(values, bins) for a value r of square r2, the
\* values ranging from 0 to mx (of square mx2): the bins are the intervals
\* ((i-1)*mx/bins, i*mx/bins], the first one extended below 0
CutCode(r2, mx2, bins) ==
    CHOOSE i \in 1..bins :
        /\ RLe(RMul(r2, RInt(bins * bins)), RMul(RInt(i * i), mx2))
        /\ i = 1 \/ RLt(RMul(RInt((i - 1) * (i - 1)), mx2), RMul(r2, RInt(bins * bins)))

\* the cells of bin i, in ravel order
BinCells(ps, fftdim, bins, i) ==
    SelectSeq(Ravel(ps.nd.shape),
              LAMBDA t : CutCode(Radius2(ps, fftdim, t), MaxRadius2(ps, fftdim), bins) = i)

\* _groupby_bins_agg(ps, freq_r, bins, func="mean"): the mean of ps over each
\* bin, 0 for a bin without cells
BinMean(ps, cells) ==
    IF Len(cells) = 0 THEN C0
    ELSE CScale(<<1, Len(cells)>>, CSumSeq([j \in 1..Len(cells) |-> ps.nd.v[cells[j]]]))

\* isotropize: [status, da, kernel]; a value of the result is the bin mean of
\* ps (mean) times the bin mean of the radial frequency (the squares kr2 of
\* its terms), which is also the coordinate of the bin
isotropize(ps, fftdim, nfactor) ==
    LET N == <<Len(ps.coords[fftdim[2]]), Len(ps.coords[fftdim[1]])>>
        n == nbins(N, nfactor)
        kr2 == [i \in 1..n |->
                  [j \in 1..Len(BinCells(ps, fftdim, n, i)) |->
                      Radius2(ps, fftdim, BinCells(ps, fftdim, n, i)[j])]]
    IN  IF n < 1 THEN Raise("bins_not_positive", 0)
        ELSE [status |-> "ok", kernel |-> 0,
              da |-> [dims |-> <<FreqR>>,
                      coords |-> [e \in {FreqR} |-> kr2],
                      spacing |-> <<>>,
                      nd |-> [shape |-> <<n>>,
                              v |-> [t \in Idx(<<n>>) |->
                                       [mean |-> BinMean(ps, BinCells(ps, fftdim, n, t[1] + 1)),
                                        kr2 |-> kr2[t[1] + 1]]]],
                      chunks |-> <<>>]]

(***************************************************************************)
(* The calls of the model.  A state holds the last call: the function      *)
(* called (pc), its input array(s), its arguments and its result; orig     *)
(* holds the forward call whose output an inverse call was given.          *)
(***************************************************************************)
VARIABLES pc, inp, inp2, args, res, orig
vars == <<pc, inp, inp2, args, res, orig>>

X == <<"x">>
Y == <<"y">>
Prefix == <<"freq_">>

\* the default arguments of dft, idft, power_spectrum and cross_spectrum
DefaultArgs ==
    [spacing_tol |-> <<1, 1000>>, dim |-> None, real |-> None, shift |-> TRUE,
     true_phase |-> FALSE, true_amplitude |-> FALSE, chunks_to_segments |-> FALSE,
     prefix |-> Prefix, lag |-> None, scaling |-> "density", density |-> "unset",
     detrend |-> None, nfactor |-> 4]

NoRes == [status |-> "none", da |-> NoArr, kernel |-> 0]
NoCall == [da |-> NoArr, a |-> DefaultArgs]

\* bounds of the inputs
MaxOrigin == 3
MaxDiff == 3
MaxChunks == 3
MaxCoord == 2
MaxFactor == 4
\* axis lengths whose transforms the number field holds exactly
Lengths == {2, 3, 4, 6}
Lengths2 == {2, 3, 4}
ChunkLens == {1, 2, 3, 4}
Spacings == {RInt(1), RInt(2)}
Tiny == <<1, 1000000000>>

\* the coordinate (m + j) * dx, j = 0 .. n-1
UCoord(n, m, dx) == [j \in 1..n |-> RMul(RInt(m + j - 1), dx)]
\* the coordinate with the given consecutive differences, starting at 0
RECURSIVE DCoord(_, _)
DCoord(diffs, unit) ==
    IF Len(diffs) = 0 THEN <<R0>>
    ELSE LET c == DCoord(Front(diffs), unit)
         IN  Append(c, RAdd(Last(c), RMul(RInt(Last(diffs)), unit)))

\* sample values: a real ramp 1, 2, .. or the complex (j+1) + i*(n-j)
Sig(sig, n) ==
    [t \in Idx(<<n>>) |->
        IF sig = "ramp" THEN CReal(RInt(t[1] + 1))
        ELSE <<RInt(t[1] + 1), R0, R0, RInt(n - t[1])>>]

Arr1(d, coord, sig, chunks) ==
    [dims |-> <<d>>, coords |-> [e \in {d} |-> coord], spacing |-> <<>>,
     nd |-> [shape |-> <<Len(coord)>>, v |-> Sig(sig, Len(coord))],
     chunks |-> IF chunks = None THEN <<>> ELSE [e \in {d} |-> chunks]]

Arr2(cx, cy) ==
    [dims |-> <<X, Y>>, coords |-> [e \in {X, Y} |-> IF e = X THEN cx ELSE cy],
     spacing |-> <<>>,
     nd |-> [shape |-> <<Len(cx), Len(cy)>>,
             v |-> Eager([t \in Idx(<<Len(cx), Len(cy)>>) |->
                      CReal(RInt(t[1] * Len(cy) + t[2] + 1))])],
     chunks |-> <<>>]

\* uniformly spaced one-dimensional arrays, any origin
UniformCalls ==
    {[da |-> Arr1(X, UCoord(n, m, dx), sig, None),
      a |-> [DefaultArgs EXCEPT !.real = real, !.shift = sh,
                                !.true_phase = tf, !.true_amplitude = tf]] :
        n \in Lengths, m \in (-MaxOrigin)..MaxOrigin, dx \in Spacings,
        sig \in {"ramp", "cplx"}, real \in {None, X}, sh \in BOOLEAN, tf \in BOOLEAN}

\* one-dimensional arrays with arbitrary coordinate differences
DiffCalls ==
    {[da |-> Arr1(X, DCoord(diffs, unit), "ramp", None),
      a |-> [DefaultArgs EXCEPT !.spacing_tol = tol, !.true_amplitude = TRUE]] :
        diffs \in UNION {[1..(n - 1) -> (-1)..MaxDiff] : n \in {3, 4}},
        unit \in {R1, Tiny}, tol \in {<<1, 1000>>, RInt(2)}}

\* chunked one-dimensional arrays, transformed segment by segment
RECURSIVE ChunkTuples(_)
ChunkTuples(k) ==
    IF k = 0 THEN {} ELSE [1..k -> ChunkLens] \cup ChunkTuples(k - 1)

ChunkCalls ==
    {[da |-> Arr1(X, UCoord(SeqSum(c), 0, R1), "ramp", c),
      a |-> [DefaultArgs EXCEPT !.chunks_to_segments = TRUE]] :
        c \in ChunkTuples(MaxChunks)}

\* two-dimensional arrays of unequal axis lengths, zero-centred or not
GridCalls ==
    {[da |-> Arr2(UCoord(s[1], IF cen THEN -(s[1] \div 2) ELSE 1, R1),
                  UCoord(s[2], IF cen THEN -(s[2] \div 2) ELSE 0, R1)),
      a |-> [DefaultArgs EXCEPT !.dim = dim, !.real = real, !.shift = sh,
                                !.true_phase = tf, !.true_amplitude = tf]] :
        s \in {q \in Lengths2 \X Lengths2 : q[1] # q[2]}, cen \in BOOLEAN,
        dim \in {None, <<X, Y>>, <<Y, X>>, <<X>>}, real \in {None, X, Y},
        sh \in BOOLEAN, tf \in BOOLEAN}

\* chunked two-dimensional arrays: x holds two chunks of 2, y one chunk of 3
\* or two chunks of 2
SegmentCalls ==
    {[da |-> [Arr2(UCoord(4, 0, R1), UCoord(SeqSum(cy), 0, R1)) EXCEPT
                 !.chunks = [e \in {X, Y} |-> IF e = X THEN <<2, 2>> ELSE cy]],
      a |-> [DefaultArgs EXCEPT !.dim = dim, !.real = real,
                                !.chunks_to_segments = TRUE]] :
        cy \in {<<3>>, <<2, 2>>}, dim \in {None, <<X>>, <<Y>>, <<Y, X>>},
        real \in {None, X}}

\* detrend='constant'
Constant == <<"constant">>

\* calls with detrend='constant'
DetrendCalls ==
    {[da |-> x, a |-> [DefaultArgs EXCEPT !.detrend = Constant, !.dim = dim]] :
        x \in {Arr1(X, UCoord(n, 0, R1), sig, None) :
                  n \in {3, 4}, sig \in {"ramp", "cplx"}}
              \cup {Arr2(UCoord(3, 0, R1), UCoord(2, 0, R1))},
        dim \in {None, <<X>>}}

\* arrays whose axis name already begins with the prefix
PrefixedCalls ==
    {[da |-> Arr1(Prefix \o X, UCoord(n, 0, R1), "ramp", None), a |-> DefaultArgs] :
        n \in {3, 4}}

DftCalls ==
    {c \in UniformCalls : c.a.real = None \/ c.da.nd.v = Sig("ramp", c.da.nd.shape[1])}
    \cup DiffCalls \cup ChunkCalls \cup GridCalls \cup SegmentCalls \cup DetrendCalls
    \cup PrefixedCalls

\* the arguments of the inverse call that mirrors a forward call a on x: the
\* same flags on the renamed axes, with no lag or with the lag of each axis
\* (the midpoint of its coordinate in x) in the order of the caller's dims
MirrorArgs(x, a) ==
    [a EXCEPT !.dim = IF a.dim = None THEN None
                      ELSE [i \in 1..Len(a.dim) |-> NewName(a.dim[i], a.prefix)],
              !.real = IF a.real = None THEN None ELSE NewName(a.real, a.prefix),
              !.shift = TRUE]
TrueLags(x, a) ==
    [i \in 1..Len(CallerDims(x, a)) |-> _lag_coord(x.coords[CallerDims(x, a)[i]])]
\* every phase factor exp(2i*pi*f*lag) the call can need is held by the field
LagsOk(x, a, daft) ==
    /\ a.real = None \/ a.real \in Range(CallerDims(x, a))
    /\ \A d \in Range(CallerDims(x, a)) : \A i \in 1..Len(TrueLags(x, a)) :
          \A j \in 1..Len(daft.coords[NewName(d, a.prefix)]) :
             TurnOk(RMul(daft.coords[NewName(d, a.prefix)][j], TrueLags(x, a)[i]))
InverseArgs(x, a, daft) ==
    {MirrorArgs(x, a)} \cup
    (IF LagsOk(x, a, daft) THEN {[MirrorArgs(x, a) EXCEPT !.lag = TrueLags(x, a)]} ELSE {})

\* spectra with arbitrary coordinates, given to idft directly
FX == Prefix \o X
SpectrumCalls ==
    {[da |-> Arr1(FX, [j \in 1..Len(c) |-> RMul(RInt(c[j]), unit)], "cplx", None),
      a |-> [DefaultArgs EXCEPT !.real = real, !.shift = sh]] :
        c \in UNION {[1..n -> (-MaxCoord)..MaxCoord] : n \in {2, 3}},
        unit \in {R1, <<1, 1000>>}, real \in {None, FX}, sh \in BOOLEAN}
    \cup {[da |-> Arr1(FX, UCoord(4, -1, R1), "cplx", <<2, 2>>),
           a |-> [DefaultArgs EXCEPT !.chunks_to_segments = TRUE, !.shift = sh]] :
              sh \in BOOLEAN}
    \cup {[da |-> Arr1(FX, UCoord(n, -(n \div 2), R1), "cplx", None),
           a |-> [DefaultArgs EXCEPT !.detrend = Constant]] : n \in {3, 4}}
    \cup {[da |-> Arr1(X, UCoord(n, -(n \div 2), R1), "cplx", None),
           a |-> DefaultArgs] : n \in {3, 4}}

\* an axis name of the caller that holds the text "segment"
Seg == <<"segment">>

\* inputs of the spectrum functions
SpecArrays ==
    {Arr1(X, UCoord(n, 0, dx), "ramp", None) : n \in Lengths, dx \in Spacings}
    \cup {Arr1(X, DCoord(<<1, 1, 3>>, R1), "ramp", None),
          Arr1(Seg, UCoord(4, 0, RInt(2)), "ramp", None),
          Arr1(X, UCoord(4, 0, R0), "ramp", None),
          Arr1(X, UCoord(6, 0, R1), "ramp", <<2, 4>>),
          Arr1(X, UCoord(6, 0, R1), "ramp", <<3, 3>>)}
PowerCalls ==
    {[da |-> x,
      a |-> [DefaultArgs EXCEPT !.real = real, !.scaling = sc, !.density = den,
                                !.chunks_to_segments = (x.chunks # <<>>)]] :
        x \in SpecArrays, real \in {None, X, Y},
        sc \in {"density", "spectrum", "false_density", "power"},
        den \in {"unset", "true", "false"}}

\* two-dimensional inputs of power_spectrum, transformed along both axes
GridPowerCalls ==
    {[da |-> Arr2(UCoord(s[1], 0, R1), UCoord(s[2], 0, RInt(2))), a |-> DefaultArgs] :
        s \in Lengths2 \X Lengths2}

\* power spectra in the kernel's order of frequencies (shift=False)
UnshiftedPowerCalls ==
    {[da |-> Arr1(X, UCoord(n, 0, dx), "ramp", None),
      a |-> [DefaultArgs EXCEPT !.shift = FALSE, !.scaling = sc]] :
        n \in {2, 3}, dx \in Spacings, sc \in {"density", "spectrum"}}

CrossArrays ==
    {Arr1(d, UCoord(n, 0, R1), sig, None) :
        d \in {X, Y}, n \in {4, 6}, sig \in {"ramp", "cplx"}}
    \cup {Arr1(X, DCoord(<<1, 1, 3>>, R1), "ramp", None)}
CrossCalls ==
    {[da |-> x, da2 |-> y,
      a |-> [DefaultArgs EXCEPT !.scaling = sc, !.density = den]] :
        x \in CrossArrays, y \in CrossArrays,
        sc \in {"density", "spectrum", "false_density", "power"},
        den \in {"unset", "true", "false"}}

Init ==
    /\ pc = "idle"
    /\ inp = NoArr
    /\ inp2 = NoArr
    /\ args = DefaultArgs
    /\ res = NoRes
    /\ orig = NoCall

CallDft(c) ==
    /\ pc = "idle"
    /\ pc' = "dft"
    /\ inp' = c.da
    /\ inp2' = NoArr
    /\ args' = c.a
    /\ res' = dft(c.da, c.a)
    /\ orig' = NoCall

\* idft of the output of the forward call of the state
Inverse ==
    /\ pc = "dft"
    /\ res.status = "ok"
    /\ ~args.chunks_to_segments
    /\ \E b \in InverseArgs(inp, args, res.da) :
          /\ pc' = "idft"
          /\ inp' = res.da
          /\ inp2' = NoArr
          /\ args' = b
          /\ res' = idft(res.da, b)
          /\ orig' = [da |-> inp, a |-> args]

CallIdft(c) ==
    /\ pc = "idle"
    /\ pc' = "idft"
    /\ inp' = c.da
    /\ inp2' = NoArr
    /\ args' = c.a
    /\ res' = idft(c.da, c.a)
    /\ orig' = NoCall

CallPowerSpectrum(c) ==
    /\ pc = "idle"
    /\ pc' = "power_spectrum"
    /\ inp' = c.da
    /\ inp2' = NoArr
    /\ args' = c.a
    /\ res' = power_spectrum(c.da, c.a)
    /\ orig' = NoCall

\* isotropize of the two-dimensional power spectrum of the state
Isotropize ==
    /\ pc = "power_spectrum"
    /\ res.status = "ok"
    /\ Len(res.da.dims) = 2
    /\ \E fftdim \in {res.da.dims, <<res.da.dims[2], res.da.dims[1]>>} :
       \E nfactor \in 1..MaxFactor :
          /\ pc' = "isotropize"
          /\ inp' = res.da
          /\ inp2' = NoArr
          /\ args' = [DefaultArgs EXCEPT !.dim = fftdim, !.nfactor = nfactor]
          /\ res' = isotropize(res.da, fftdim, nfactor)
          /\ orig' = [da |-> inp, a |-> args]

CallCrossSpectrum(c) ==
    /\ pc = "idle"
    /\ pc' = "cross_spectrum"
    /\ inp' = c.da
    /\ inp2' = c.da2
    /\ args' = c.a
    /\ res' = cross_spectrum(c.da, c.da2, c.a)
    /\ orig' = NoCall

\* the call is over; the next one starts from nothing (calls share no state)
Return ==
    /\ pc # "idle"
    /\ pc' = "idle"
    /\ inp' = NoArr
    /\ inp2' = NoArr
    /\ args' = DefaultArgs
    /\ res' = NoRes
    /\ orig' = NoCall

Next ==
    \/ \E c \in DftCalls : CallDft(c)
    \/ Inverse
    \/ \E c \in SpectrumCalls : CallIdft(c)
    \/ \E c \in PowerCalls \cup GridPowerCalls \cup UnshiftedPowerCalls :
          CallPowerSpectrum(c)
    \/ Isotropize
    \/ \E c \in CrossCalls : CallCrossSpectrum(c)
    \/ Return

Spec == Init /\ [][Next]_vars

(***************************************************************************)
(* The claims.  A round trip is an idft state reached by Inverse: orig     *)
(* holds the forward call, inp its output, args the inverse arguments.     *)
(***************************************************************************)

C2_SpacingRule ==
    (/\ pc = "dft" /\ ~args.chunks_to_segments /\ args.real = None
     /\ Len(DimList(inp, args)) = 1
     /\ Len(inp.coords[DimList(inp, args)[1]]) >= 2)
    => LET diff == _diff_coord(inp.coords[DimList(inp, args)[1]])
           Exceeds(d) ==
               IF diff[1] = R0 THEN d # R0
               ELSE RLt(args.spacing_tol, RDiv(RAbs(RSub(d, diff[1])), RAbs(diff[1])))
       IN  res.status = "not_evenly_spaced" <=> \E i \in 1..Len(diff) : Exceeds(diff[i])

\* the coordinate 0, 1e-9, 3e-9 (differences 1e-9 and 2e-9) passes the spacing
\* check of dft with spacing_tol = 1e-3
C2_AtolAccepts ==
    /\ pc = "dft" /\ res.status = "ok" /\ inp.dims = <<X>>
    /\ args.spacing_tol = <<1, 1000>>
    /\ inp.coords[X] = <<R0, Tiny, RMul(RInt(3), Tiny)>>

\* C3, as stated: with chunks_to_segments, dft raises the uneven-chunking
\* error for every split axis whose chunk lengths are not all identical,
\* whatever the tuple of chunk lengths.
C3_UnevenRejected ==
    (/\ pc = "dft" /\ args.chunks_to_segments
     /\ \E d \in Range(DimList(inp, args)) : \E i \in 1..Len(inp.chunks[d]) :
           inp.chunks[d][i] # inp.chunks[d][1])
    => res.status = "uneven_chunks"

\* the chunks (2, 4, 2) are split into four segments of length 2 and
\* transformed
C3_InteriorAccepted ==
    /\ pc = "dft" /\ args.chunks_to_segments
    /\ inp.chunks[X] = <<2, 4, 2>>
    /\ res.status = "ok"
    /\ res.da.nd.shape = <<4, 2>>

\* C4, as stated: whenever dft, idft, power_spectrum or cross_spectrum raises
\* a validation error, no FFT kernel call has been issued in that invocation
\* and no result is returned.
C4_ErrorBeforeKernel ==
    (pc # "idle" /\ res.status # "ok") => (res.kernel = 0 /\ res.da = NoArr)

\* C4, amended: an error never comes with a result.  dft and idft raise
\* before any kernel call.  power_spectrum raises the unknown-scaling error
\* after the one transform it makes; cross_spectrum raises an error of its
\* second array after the transform of the first, and the
\* mismatched-dimensions and unknown-scaling errors after both transforms.
C4_ErrorsAndKernelCalls ==
    (pc # "idle" /\ res.status # "ok")
    => /\ res.da = NoArr
       /\ res.kernel =
             IF pc \in {"dft", "idft"} THEN 0
             ELSE IF res.status = "unknown_scaling"
                  THEN (IF pc = "power_spectrum" THEN 1 ELSE 2)
             ELSE IF res.status = "different_dimensions" THEN 2
             ELSE IF /\ pc = "cross_spectrum"
                     /\ DftCoordsErr(inp, DimList(inp, args), args.spacing_tol) = "ok"
                  THEN 1
             ELSE 0

\* cross_spectrum raises the mismatched-dimensions error after both transforms
C4_Witness ==
    /\ pc = "cross_spectrum"
    /\ res.status = "different_dimensions"
    /\ res.kernel = 2
    /\ res.da = NoArr

\* C5: for an even axis length N and spacing dx, dft without real and with
\* shift gives the N frequencies k/(N*dx), k = -N/2 .. N/2-1, in ascending
\* order; along the real axis it gives the N/2+1 frequencies k/(N*dx),
\* k = 0 .. N/2.
C5_EvenGrids ==
    (pc = "dft" /\ res.status = "ok" /\ ~args.chunks_to_segments)
    => \A d \in Range(DimList(inp, args)) :
          LET N == Len(inp.coords[d])
              dx == RAbs(_diff_coord(inp.coords[d])[1])
              k(j) == RDiv(RInt(j), RMul(RInt(N), dx))
              grid == res.da.coords[NewName(d, args.prefix)]
          IN  N % 2 = 0
              => /\ (args.real = None /\ args.shift)
                    => grid = [j \in 1..N |-> k(j - 1 - N \div 2)]
                 /\ args.real = d
                    => grid = [j \in 1..(N \div 2 + 1) |-> k(j - 1)]

\* the real transform of an axis of length 6 and spacing 2
C5_Witness ==
    /\ pc = "dft" /\ res.status = "ok" /\ args.real = X
    /\ inp.coords[X] = UCoord(6, 0, RInt(2))
    /\ res.da.coords[NewName(X, args.prefix)] = <<R0, <<1, 12>>, <<1, 6>>, <<1, 4>>>>

\* C6, as stated: for every axis length N >= 2 the real forward transform
\* gives N \div 2 + 1 frequencies and the real inverse transform of that
\* halved axis gives an axis of length N.
C6_RealInverseLength ==
    /\ (pc = "dft" /\ res.status = "ok" /\ args.real # None /\ ~args.chunks_to_segments)
       => Len(res.da.coords[NewName(args.real, args.prefix)])
             = Len(inp.coords[args.real]) \div 2 + 1
    /\ (pc = "idft" /\ orig # NoCall /\ orig.a.real # None /\ res.status = "ok")
       => Len(res.da.coords[orig.a.real]) = Len(orig.da.coords[orig.a.real])

\* C6, amended: the real inverse transform of the halved axis has length
\* 2 * (N \div 2): N for an even N, N - 1 for an odd N.
C6_RealAxisLengths ==
    /\ (pc = "dft" /\ res.status = "ok" /\ args.real # None /\ ~args.chunks_to_segments)
       => Len(res.da.coords[NewName(args.real, args.prefix)])
             = Len(inp.coords[args.real]) \div 2 + 1
    /\ (pc = "idft" /\ orig # NoCall /\ orig.a.real # None /\ res.status = "ok")
       => /\ Len(res.da.coords[orig.a.real])
                = 2 * (Len(orig.da.coords[orig.a.real]) \div 2)
          /\ res.da.nd.shape[AxisNum(res.da.dims, orig.a.real)]
                = 2 * (Len(orig.da.coords[orig.a.real]) \div 2)

\* the real round trip of an axis of length 3 comes back with length 2
C6_Witness ==
    /\ pc = "idft" /\ orig # NoCall /\ orig.a.real = X /\ res.status = "ok"
    /\ Len(orig.da.coords[X]) = 3
    /\ Len(inp.coords[NewName(X, orig.a.prefix)]) = 2
    /\ Len(res.da.coords[X]) = 2

\* C7, as stated: cross_spectrum raises the mismatched-dimensions error
\* whenever its two forward transforms disagree in shape.
C7_ShapeMismatchRaises ==
    pc = "cross_spectrum"
    => LET r1 == dft(inp, [args EXCEPT !.true_amplitude = TRUE])
           r2 == dft(inp2, [args EXCEPT !.true_amplitude = TRUE])
       IN  (/\ r1.status = "ok" /\ r2.status = "ok"
            /\ r1.da.nd.shape # r2.da.nd.shape)
           => res.status = "different_dimensions"

\* two arrays over the axis x, of lengths 4 and 6: cross_spectrum returns a
\* result over the two frequencies they share
C7_LengthsJoined ==
    /\ pc = "cross_spectrum" /\ res.status = "ok"
    /\ inp.dims = <<X>> /\ inp2.dims = <<X>>
    /\ inp.nd.shape = <<4>> /\ inp2.nd.shape = <<6>>
    /\ res.da.nd.shape = <<2>>

\* C8, as stated: in dft with shift requested and real set, every transformed
\* axis but the real one has its frequencies in ascending order.
C8_OtherAxesShifted ==
    (/\ pc = "dft" /\ res.status = "ok" /\ ~args.chunks_to_segments
     /\ args.real # None /\ args.shift)
    => \A d \in Range(DimList(inp, args)) :
          d # args.real
          => res.da.coords[NewName(d, args.prefix)]
                = ShiftSeq(fftfreq(Len(inp.coords[d]),
                                   RAbs(_diff_coord(inp.coords[d])[1])))

\* C8, amended: in dft with real set, shift is ignored for every axis: the
\* frequencies of every other transformed axis are in the kernel's order
\* (zero first, negative last), and the result is that of the call without
\* shift.
C8_RealDisablesShift ==
    (/\ pc = "dft" /\ res.status = "ok" /\ ~args.chunks_to_segments
     /\ args.real # None /\ args.shift)
    => /\ \A d \in Range(DimList(inp, args)) :
             d # args.real
             => res.da.coords[NewName(d, args.prefix)]
                   = fftfreq(Len(inp.coords[d]), RAbs(_diff_coord(inp.coords[d])[1]))
       /\ res = dft(inp, [args EXCEPT !.shift = FALSE])

\* a two-dimensional transform, real along x, shift requested: the
\* frequencies along y start at zero
C8_Witness ==
    /\ pc = "dft" /\ res.status = "ok" /\ args.real = X /\ args.shift
    /\ DimList(inp, args) = <<Y, X>>
    /\ Len(inp.coords[Y]) = 4
    /\ res.da.coords[NewName(Y, args.prefix)] = <<R0, <<1, 4>>, <<-1, 2>>, <<-1, 4>>>>

\* C9, as stated: idft raises the uncentred-spectrum error for every
\* transformed axis, the real axis included, whose coordinate, re-sorted when
\* it is evenly spaced only once sorted, has a midpoint coord[len // 2] of
\* absolute value above spacing_tol, and passes the centring check otherwise.
C9_MidpointCheck ==
    (/\ pc = "idft" /\ Len(inp.dims) = 1 /\ Len(inp.coords[inp.dims[1]]) >= 2
     /\ ~args.chunks_to_segments
     /\ res.status \notin {"real_not_in_dims", "dim_lag_length"})
    => LET d == inp.dims[1]
           coord == inp.coords[d]
           sorted == sortby(inp, d).coords[d]
           Even(c) == allclose(_diff_coord(c), _diff_coord(c)[1], args.spacing_tol)
           tested == IF Even(coord) THEN _lag_coord(coord) ELSE _lag_coord(sorted)
       IN  res.status = "not_centered"
           <=> (Even(coord) \/ Even(sorted)) /\ RLt(args.spacing_tol, RAbs(tested))

\* C9, amended: the value tested is the midpoint coord[len // 2] for an axis
\* that is not the real one and for a coordinate that had to be re-sorted;
\* for the real axis with a coordinate evenly spaced as given it is the first
\* value coord[0].
C9_CentringCheck ==
    (/\ pc = "idft" /\ Len(inp.dims) = 1 /\ Len(inp.coords[inp.dims[1]]) >= 2
     /\ ~args.chunks_to_segments
     /\ res.status \notin {"real_not_in_dims", "dim_lag_length"})
    => LET d == inp.dims[1]
           coord == inp.coords[d]
           sorted == sortby(inp, d).coords[d]
           Even(c) == allclose(_diff_coord(c), _diff_coord(c)[1], args.spacing_tol)
           tested == IF ~Even(coord) THEN _lag_coord(sorted)
                     ELSE IF d = args.real THEN coord[1]
                     ELSE _lag_coord(coord)
       IN  res.status = "not_centered"
           <=> (Even(coord) \/ Even(sorted)) /\ RLt(args.spacing_tol, RAbs(tested))

\* a real axis with the coordinate 0, 1 passes the centring check although
\* its midpoint is 1, and one with the coordinate -1, 0 fails it although its
\* midpoint is 0
C9_Witness ==
    /\ pc = "idft" /\ orig = NoCall /\ args.real = FX
    /\ \/ inp.coords[FX] = <<R0, R1>> /\ res.status = "ok"
       \/ inp.coords[FX] = <<RInt(-1), R0>> /\ res.status = "not_centered"

\* C10, as stated: the i-th lag given to idft goes with the i-th entry of the
\* caller's dim, in the phase ramp of the input and in the offset of the
\* output coordinate, also when real is set and is not the last entry of dim:
\* the result is that of the call with the real axis written last in dim and
\* the lags written in the same order.
C10_LagPairing ==
    (pc = "idft" /\ orig # NoCall /\ args.lag # None /\ res.status = "ok")
    => LET dim == DimList(inp, args)
           lagOf(d) == args.lag[AxisNum(CallerDims(inp, args), d)]
       IN  res = idft(inp, [args EXCEPT !.dim = dim,
                                        !.lag = [i \in 1..Len(dim) |-> lagOf(dim[i])]])

\* dim = (freq_x, freq_y), real = freq_x and two different lags: the output
\* coordinate along y is the zero-centred grid offset by the lag given first
C10_LagsSwapped ==
    /\ pc = "idft" /\ orig # NoCall /\ res.status = "ok"
    /\ args.dim = <<FX, Prefix \o Y>> /\ args.real = FX
    /\ args.lag # None /\ args.lag[1] # args.lag[2]
    /\ _lag_coord(res.da.coords[Y]) = args.lag[1]
    /\ res.da.coords[X][1] = RAdd(RNeg(RInt(Len(res.da.coords[X]) \div 2)), args.lag[2])

\* C11, as stated: power_spectrum returns |X|^2 (doubled on the real path)
\* times the product of the spacing attributes of every transformed output
\* axis for scaling 'density', times that product squared for 'spectrum' and
\* unscaled for 'false_density', whatever the name of the transformed axis.
C11_ScalingAllAxes ==
    (pc = "power_spectrum" /\ res.status = "ok") =>
        LET unscaled == power_spectrum(inp, [args EXCEPT !.scaling = "false_density",
                                                         !.density = "unset"]).da
            dim == DimList(inp, args)
            fs == RProd([i \in 1..Len(dim) |->
                            res.da.spacing[NewName(dim[i], args.prefix)]])
            factor == IF Scaling(args) = "density" THEN fs
                      ELSE IF Scaling(args) = "spectrum" THEN RMul(fs, fs)
                      ELSE R1
        IN  res.da.nd = ScaleArr(unscaled, factor).nd

\* C11: a density-scaled power spectrum of an axis named 'segment', with
\* output spacing 1/8, that is returned unscaled
C11_SegmentUnscaled ==
    /\ pc = "power_spectrum" /\ res.status = "ok"
    /\ inp.dims = <<Seg>> /\ Scaling(args) = "density"
    /\ res.da.spacing[Prefix \o Seg] = <<1, 8>>
    /\ res.da.nd = power_spectrum(inp, [args EXCEPT !.scaling = "false_density",
                                                    !.density = "unset"]).da.nd

\* C12, as stated: power_spectrum and cross_spectrum raise the invalid-scaling
\* error for every call whose scaling argument is not 'density', 'spectrum'
\* or 'false_density', whatever the other options, the legacy density flag
\* included.
C12_UnknownScalingRaises ==
    (/\ pc \in {"power_spectrum", "cross_spectrum"}
     /\ args.scaling \notin {"density", "spectrum", "false_density"})
    => res.status = "unknown_scaling"

\* C12, amended: for a call whose scaling argument is not one of the three
\* names, an error of a forward transform (or the mismatched-dimensions
\* error) comes first; otherwise the invalid-scaling error is raised when no
\* legacy density flag is passed, and with the flag the scaling argument is
\* ignored: the call returns what scaling='density' (flag true) or
\* scaling='false_density' (flag false) returns.
C12_UnknownScalingChecked ==
    (/\ pc \in {"power_spectrum", "cross_spectrum"}
     /\ args.scaling \notin {"density", "spectrum", "false_density"})
    => LET r1 == dft(inp, [args EXCEPT !.true_amplitude = TRUE,
                              !.true_phase = (pc = "cross_spectrum" /\ @)])
           r2 == IF pc = "power_spectrum" THEN r1
                 ELSE dft(inp2, [args EXCEPT !.true_amplitude = TRUE])
           early == IF r1.status # "ok" THEN r1.status
                    ELSE IF r2.status # "ok" THEN r2.status
                    ELSE IF r1.da.dims # r2.da.dims THEN "different_dimensions"
                    ELSE "ok"
           named == [args EXCEPT !.density = "unset",
                        !.scaling = IF args.density = "true" THEN "density"
                                    ELSE "false_density"]
       IN  IF early # "ok" THEN res.status = early
           ELSE IF args.density = "unset" THEN res.status = "unknown_scaling"
           ELSE /\ res.status = "ok"
                /\ res = IF pc = "power_spectrum" THEN power_spectrum(inp, named)
                         ELSE cross_spectrum(inp, inp2, named)

\* C12: a call with scaling='power' and the legacy flag density=False that
\* returns a result
C12_Witness ==
    /\ pc = "power_spectrum" /\ args.scaling = "power" /\ args.density = "false"
    /\ res.status = "ok"

\* C13: the output of dft and idft has its axes in the order of the input
\* after the optional segment split: without the segment-index axes the
\* output axes are those of the input, in order, each transformed axis under
\* its new name and each other axis under its own; every split axis has its
\* segment-index axis, which sits immediately before it; also when real
\* moved the real axis to the end for the kernel.
C13_AxisOrder ==
    (pc \in {"dft", "idft"} /\ res.status = "ok") =>
        LET dim == DimList(inp, args)
            out == res.da.dims
            split == IF args.chunks_to_segments
                     THEN {d \in Range(dim) : d \in Range(inp.dims)} ELSE {}
            renamed(d) == IF d \in Range(dim) THEN NewName(d, args.prefix) ELSE d
        IN  /\ SelectSeq(out, LAMBDA nm : \A d \in split : nm # d \o Suffix)
                 = [i \in 1..Len(inp.dims) |-> renamed(inp.dims[i])]
            /\ \A d \in split : \E i \in 1..(Len(out) - 1) :
                  out[i] = d \o Suffix /\ out[i + 1] = renamed(d)
            /\ Len(out) = Len(inp.dims) + Cardinality(split)
            /\ Len(res.da.nd.shape) = Len(out)
            /\ \A i \in 1..Len(out) : res.da.nd.shape[i] = Len(res.da.coords[out[i]])

\* C13: a real transform of a chunked two-dimensional array along both axes,
\* whose real axis x is first in the input and was moved last for the kernel
C13_Witness ==
    /\ pc = "dft" /\ res.status = "ok" /\ args.chunks_to_segments
    /\ args.real = X /\ inp.dims = <<X, Y>> /\ args.dim = None
    /\ res.da.dims = <<X \o Suffix, Prefix \o X, Y \o Suffix, Prefix \o Y>>

\* C14: for a two-dimensional spectrum with frequency axes of lengths N1 and
\* N2 and nfactor with floor(min(N1, N2) / nfactor) >= 1, isotropize returns
\* a one-dimensional result with exactly floor(min(N1, N2) / nfactor) radial
\* bins (values and coordinate).
C14_BinCount ==
    (pc = "isotropize" /\ Len(inp.dims) = 2) =>
        LET N1 == inp.nd.shape[1]
            N2 == inp.nd.shape[2]
            least == IF N1 < N2 THEN N1 ELSE N2
        IN  least \div args.nfactor >= 1 =>
                /\ res.status = "ok"
                /\ Len(res.da.dims) = 1
                /\ res.da.nd.shape = <<least \div args.nfactor>>
                /\ Len(res.da.coords[res.da.dims[1]]) = least \div args.nfactor
                /\ DOMAIN res.da.nd.v = Idx(<<least \div args.nfactor>>)

\* C14: a spectrum of shape (3, 4) reduced with nfactor = 1 to 3 bins
C14_Witness ==
    /\ pc = "isotropize" /\ inp.nd.shape = <<3, 4>> /\ args.nfactor = 1
    /\ res.status = "ok" /\ res.da.nd.shape = <<3>>

\* C15, as stated: idft checks a transformed axis in two stages.  When the
\* coordinate in its given order passes the uniformity test the data is
\* transformed in the given order; when it fails and the ascending-sorted
\* coordinate passes, the data and the coordinate are sorted before the
\* kernel runs and the output grid is built from the spacing of the sorted
\* coordinate; when the sorted coordinate fails too, the non-uniform-spacing
\* error is raised.
C15_TwoStage ==
    (/\ pc = "idft" /\ orig = NoCall /\ Len(inp.dims) = 1
     /\ ~args.chunks_to_segments) =>
        LET d == inp.dims[1]
            diff == _diff_coord(inp.coords[d])
            sorted == sortby(inp, d)
            diff2 == _diff_coord(sorted.coords[d])
            ok1 == allclose(diff, diff[1], args.spacing_tol)
            ok2 == allclose(diff2, diff2[1], args.spacing_tol)
        IN  /\ (~ok1 /\ ~ok2) => res.status = "not_evenly_spaced"
            /\ (ok1 /\ res.status = "ok") =>
                  res.da = IdftTransform(inp, <<RAbs(diff[1])>>, args, <<d>>, inp.dims)
            /\ (~ok1 /\ ok2 /\ res.status = "ok") =>
                  res.da = IdftTransform(sorted, <<RAbs(diff2[1])>>, args, <<d>>,
                                         inp.dims)

\* C15: the coordinate [-1, 1, 0] is accepted after the sort to [-1, 0, 1],
\* of spacing 1, and the output grid has the spacing 1/(3*2) of the first
\* difference 2 of the unsorted coordinate
C15_StaleSpacing ==
    /\ pc = "idft" /\ orig = NoCall /\ args.real = None /\ args.shift
    /\ inp.dims = <<FX>>
    /\ inp.coords[FX] = <<RInt(-1), RInt(1), RInt(0)>>
    /\ res.status = "ok"
    /\ res.da.coords[X] = <<<<-1, 6>>, R0, <<1, 6>>>>
    /\ res.da.nd = IdftTransform(sortby(inp, FX), <<R1>>, args, <<FX>>, inp.dims).nd

\* C16, as stated: idft called with detrend='constant' on a valid (uniform,
\* zero-centred) input, one the same call without detrend transforms, runs
\* the detrend stage before the kernel as dft does and returns a result: the
\* transform of the input less its mean across the transformed axes.
C16_IdftDetrends ==
    (/\ pc = "idft" /\ args.detrend = Constant
     /\ idft(inp, [args EXCEPT !.detrend = None]).status = "ok")
    => /\ res.status = "ok"
       /\ res.da = idft(_detrend(inp, DimList(inp, args), Constant),
                        [args EXCEPT !.detrend = None]).da

\* C16: idft with detrend='constant' on the uniform, zero-centred coordinate
\* [-1, 0, 1] ends in a NameError
C16_NameError ==
    /\ pc = "idft" /\ args.detrend = Constant /\ orig = NoCall
    /\ inp.coords[FX] = <<RInt(-1), R0, R1>>
    /\ idft(inp, [args EXCEPT !.detrend = None]).status = "ok"
    /\ res.status = "name_error"

\* C17, as stated: every axis transformed by dft is named prefix + original
\* name in the output; every axis transformed by idft whose name begins with
\* the prefix has the prefix removed; and idft after dft restores the axis
\* names of the input, for every axis name.
C17_Naming ==
    /\ (pc = "dft" /\ res.status = "ok") =>
          \A d \in Range(DimList(inp, args)) :
             /\ args.prefix \o d \in Range(res.da.dims)
             /\ d \notin Range(res.da.dims)
    /\ (pc = "idft" /\ res.status = "ok") =>
          \A d \in Range(DimList(inp, args)) :
             (/\ Len(d) > Len(args.prefix)
              /\ SubSeq(d, 1, Len(args.prefix)) = args.prefix)
             => /\ SubSeq(d, Len(args.prefix) + 1, Len(d)) \in Range(res.da.dims)
                /\ d \notin Range(res.da.dims)
    /\ (pc = "idft" /\ orig # NoCall /\ res.status = "ok") =>
          res.da.dims = orig.da.dims

\* C17: dft along an axis named 'freq_x' returns the axis 'x'
C17_PrefixStripped ==
    /\ pc = "dft" /\ res.status = "ok" /\ args.prefix = Prefix
    /\ inp.dims = <<Prefix \o X>>
    /\ res.da.dims = <<X>>

\* C18, as stated: for every axis of length N >= 2 and spacing dx > 0 and
\* either shift setting, the spacing attribute that dft gives the new
\* frequency axis is 1/(N*dx) and positive; the spacing attribute that idft
\* gives a new axis is positive, and 1/(N*dx) for an axis other than the real
\* one; so the factors of true_amplitude and of the density and spectrum
\* scalings of power_spectrum are positive.
C18_SpacingPositive ==
    /\ (pc = "dft" /\ res.status = "ok" /\ ~args.chunks_to_segments) =>
          \A d \in Range(DimList(inp, args)) :
             LET N == Len(inp.coords[d])
                 dx == _diff_coord(inp.coords[d])[1]
                 sp == res.da.spacing[NewName(d, args.prefix)]
             IN  RLt(R0, dx) => (RLt(R0, sp) /\ sp = RInv(RMul(RInt(N), dx)))
    /\ (pc = "idft" /\ res.status = "ok" /\ ~args.chunks_to_segments) =>
          \A d \in Range(DimList(inp, args)) :
             LET N == Len(inp.coords[d])
                 dx == RAbs(_diff_coord(inp.coords[d])[1])
                 sp == res.da.spacing[NewName(d, args.prefix)]
             IN  /\ RLt(R0, sp)
                 /\ d # args.real => sp = RInv(RMul(RInt(N), dx))
    /\ (pc = "power_spectrum" /\ res.status = "ok" /\ ~args.chunks_to_segments) =>
          \A d \in Range(DimList(inp, args)) :
             RLt(R0, res.da.spacing[NewName(d, args.prefix)])

\* C18: dft with shift=False of two points of spacing 1 gives the frequency
\* axis [0, -1/2] the spacing -1/2
C18_NegativeSpacing ==
    /\ pc = "dft" /\ res.status = "ok" /\ ~args.shift /\ args.real = None
    /\ inp.dims = <<X>> /\ inp.coords[X] = <<R0, R1>>
    /\ res.da.coords[FX] = <<R0, <<-1, 2>>>>
    /\ res.da.spacing[FX] = <<-1, 2>>

\* C19, as stated: idft accepts every frequency axis that dft can produce:
\* for every axis length N >= 2, spacing dx > 0 and both shift settings of
\* dft, idft given the output of dft along the same axes (the real axis
\* named as such) raises neither the non-uniform-spacing nor the
\* uncentred-spectrum error.
C19_AcceptsDftOutput ==
    (pc = "idft" /\ orig # NoCall) =>
        res.status \notin {"not_evenly_spaced", "not_centered"}

\* C19: the frequency axis [0, -1/2] that dft with shift=False gives two
\* points of spacing 1 is rejected by idft as not centred
C19_WrappedPairRejected ==
    /\ pc = "idft" /\ orig # NoCall /\ ~orig.a.shift /\ orig.a.real = None
    /\ orig.da.dims = <<X>> /\ orig.da.coords[X] = <<R0, R1>>
    /\ inp.coords[FX] = <<R0, <<-1, 2>>>>
    /\ res.status = "not_centered"

==========================================================================
